---- MODULE Spec2Model ----
(***************************************************************************)
(* polog_setup.py: the formatter customLogFormat, the schema filter        *)
(* performanceLogFilter and the assembler setup_logging, together with the *)
(* part of the logging facility (sink registry, level threshold, worker    *)
(* pool) that setup_logging configures.                                    *)
(***************************************************************************)
EXTENDS Integers, Sequences, FiniteSets, TLC

(***************************************************************************)
(* Python values.  Every value carries its runtime type, so that None, an  *)
(* int and a str are never confused.                                       *)
(***************************************************************************)
None == [t |-> "none"]
PyInt(i) == [t |-> "int", i |-> i]
PyStr(s) == [t |-> "str", s |-> s]

\* str(v), as an f-string or "%s" renders a value
str(v) ==
  CASE v.t = "none" -> "None"
    [] v.t = "int"  -> ToString(v.i)
    [] v.t = "str"  -> v.s

\* Outcome of a call: it returns val, or it raises the exception exc.
Return(v) == [exc |-> "none", val |-> v]
Raise(e) == [exc |-> e]

\* LogItem.get(key) / dict.get(key): None when the key is absent
Get(data, key) == IF key \in DOMAIN data THEN data[key] ELSE None

(***************************************************************************)
(* Severity levels of the logging module.                                  *)
(***************************************************************************)
INFO == 20

\* logging.getLevelName: the name of a registered level, the number of a
\* registered name, "Level <x>" for anything else (None included).
getLevelName(level) ==
  IF level.t = "int" /\ level.i \in {0, 10, 20, 30, 40, 50}
  THEN PyStr(CASE level.i = 0  -> "NOTSET"
               [] level.i = 10 -> "DEBUG"
               [] level.i = 20 -> "INFO"
               [] level.i = 30 -> "WARNING"
               [] level.i = 40 -> "ERROR"
               [] level.i = 50 -> "CRITICAL")
  ELSE IF level.t = "str" /\ level.s \in {"NOTSET", "DEBUG", "INFO", "WARNING", "ERROR", "CRITICAL"}
  THEN PyInt(CASE level.s = "NOTSET"   -> 0
               [] level.s = "DEBUG"    -> 10
               [] level.s = "INFO"     -> 20
               [] level.s = "WARNING"  -> 30
               [] level.s = "ERROR"    -> 40
               [] level.s = "CRITICAL" -> 50)
  ELSE PyStr("Level " \o str(level))

(***************************************************************************)
(* customLogFormat.  The f-string is kept as the sequence of its segments: *)
(* the line written is their concatenation.                                *)
(***************************************************************************)
customLogFormat_strict(data) ==
  IF {"message", "process", "level"} \subseteq DOMAIN data
  THEN Return(<<str(data["process"]), " - ", str(getLevelName(data["level"])),
                " - ", str(data["message"]), "\n">>)
  ELSE Raise("KeyError")

customLogFormat(data) ==
  LET values == Get(data, "message")
      process == Get(data, "process")
      level == getLevelName(Get(data, "level"))
  IN  Return(<<str(process), " - ", str(level), " - ", str(values), "\n">>)

(***************************************************************************)
(* Message texts and json.loads.                                           *)
(***************************************************************************)
PlainMsg == "Normal log. Will only appear in console"
GoodMsg == "{\"field1\": \"x\", \"field2\": 1}"
BadTypeMsg == "{\"field1\": \"Custom log\", \"field2\": \"Will appear both in file and in console\"}"
MissingMsg == "{\"field1\": \"x\"}"
ArrayMsg == "[1]"

JsonObject(fields) == [t |-> "object", fields |-> fields]
JsonArray == [t |-> "array"]

\* json.loads(s): TypeError unless s is text, JSONDecodeError (a ValueError)
\* when the text is not JSON, the decoded value otherwise.
json_loads(s) ==
  IF s.t # "str" THEN Raise("TypeError")
  ELSE CASE s.s = GoodMsg ->
              Return(JsonObject([field1 |-> PyStr("x"), field2 |-> PyInt(1)]))
         [] s.s = BadTypeMsg ->
              Return(JsonObject([field1 |-> PyStr("Custom log"),
                                 field2 |-> PyStr("Will appear both in file and in console")]))
         [] s.s = MissingMsg ->
              Return(JsonObject([field1 |-> PyStr("x")]))
         [] s.s = ArrayMsg -> Return(JsonArray)
         [] OTHER -> Raise("JSONDecodeError")

(***************************************************************************)
(* Schemas (pydantic models) and validate_model.                           *)
(***************************************************************************)
TestMetric == [t |-> "model", fields |-> [field1 |-> "str", field2 |-> "int"]]

\* pydantic's field validators: str takes a str or a number, int takes an
\* int or a numeric text (none of the texts above is numeric).
FieldValid(value, type) ==
  CASE type = "str" -> value.t \in {"str", "int"}
    [] type = "int" -> value.t = "int"

ModelErrors(model, fields) ==
  {f \in DOMAIN model.fields :
     \/ f \notin DOMAIN fields
     \/ ~FieldValid(fields[f], model.fields[f])}

\* validate_model(model, input_data) RETURNS the triple
\* (values, fields_set, error); field errors are collected in error, not
\* raised.  It raises only where it dereferences its arguments:
\* model.__config__ on None, input_data.get on a value that is no dict.
validate_model(model, input_data) ==
  IF model.t # "model" THEN Raise("AttributeError")
  ELSE IF input_data.t # "object" THEN Raise("AttributeError")
  ELSE Return([fields_set |-> DOMAIN input_data.fields \cap DOMAIN model.fields,
               error |-> IF ModelErrors(model, input_data.fields) = {}
                         THEN "none" ELSE "ValidationError"])

(***************************************************************************)
(* performanceLogFilter.                                                   *)
(***************************************************************************)
\* Python's exception classes: every one here derives from Exception.
Bases(e) ==
  CASE e = "JSONDecodeError" -> {"JSONDecodeError", "ValueError", "Exception"}
    [] e = "ValueError"      -> {"ValueError", "Exception"}
    [] e = "ValidationError" -> {"ValidationError", "ValueError", "Exception"}
    [] e = "TypeError"       -> {"TypeError", "Exception"}
    [] e = "AttributeError"  -> {"AttributeError", "Exception"}
    [] OTHER                 -> {e, "Exception"}

ExceptClause_narrow(e) == Bases(e) \cap {"ValueError", "ValidationError"} # {}

\* except (ValueError, ValidationError, Exception)
ExceptClause(e) == Bases(e) \cap {"ValueError", "ValidationError", "Exception"} # {}

inner_filter(LogModel, record) ==
  LET loaded == json_loads(Get(record, "message"))
      raised == IF loaded.exc # "none" THEN loaded.exc
                ELSE validate_model(LogModel, loaded.val).exc
  IN  IF raised = "none" THEN Return(TRUE)
      ELSE IF ExceptClause(raised) THEN Return(FALSE)
      ELSE Raise(raised)

\* the closure returned: inner_filter with LogModel bound
performanceLogFilter(LogModel) == [t |-> "fn", name |-> "inner_filter", model |-> LogModel]

(***************************************************************************)
(* Bounds and input sets.                                                  *)
(***************************************************************************)
MaxSetups == 2
MaxLogs == 2

LogFiles == {None, PyStr("testing.log")}
PoolSizes == {-1, 0}
WorkerPoolSizes == {0, 1, 2}
Workers == {1, 2}
LogModels == {None, TestMetric}
PlainOnly == [t |-> "fn", name |-> "plainOnly"]
LogFilters == {None, PlainOnly}
DefaultFormat == [t |-> "fn", name |-> "customLogFormat"]
LogFormats == {DefaultFormat}
LogMessages == {PlainMsg, BadTypeMsg}
LogLevels == {10, INFO}
MainProcess == PyInt(1)

Idle == [t |-> "idle"]

VARIABLES
  root,        \* the root logger of logging: its level and number of handlers
  handlers,    \* the facility's registry of sinks, in registration order
  poolSize,    \* the facility's pool_size setting
  pc,          \* where the producing thread is: "ready" or "in_set"
  pending,     \* the pool_size a blocked config.set is about to install
  queue,       \* records handed to the worker pool, not yet taken
  busy,        \* per worker: the record it has taken, or Idle
  console,     \* what was written to standard output
  files,       \* the files that exist, with what was written to each
  logged,      \* every log call made so far, in call order: the record, or
               \* for a call dropped at the source its time and level only
  nSetups,     \* number of setup_logging calls made
  lastResult,  \* how the last setup_logging call ended
  everMulti,   \* a record was handed to a pool of two or more workers
  calls,       \* the arguments of the setup_logging calls, where they are noted
  rec,         \* a record given to the formatter or the filter directly
  fmtOut,      \* what customLogFormat made of rec
  filtOut      \* what the schema filter made of rec

pipeVars == <<root, handlers, poolSize, pc, pending, queue, busy, console, files,
              logged, nSetups, lastResult, everMulti, calls>>
pureVars == <<rec, fmtOut, filtOut>>
auxVars == <<rec, fmtOut, filtOut, calls>>
vars == <<root, handlers, poolSize, pc, pending, queue, busy, console, files,
          logged, nSetups, lastResult, everMulti, calls, rec, fmtOut, filtOut>>

Unset == [t |-> "unset"]

(***************************************************************************)
(* The logging facility, as far as setup_logging relies on it.             *)
(***************************************************************************)
\* logging.basicConfig(level=...): does nothing once the root logger has a
\* handler, else installs one and sets the level.
basicConfig(r, level) ==
  IF r.nhandlers > 0 THEN r ELSE [level |-> level, nhandlers |-> 1]

\* file_writer(file, filter=, formatter=): a sink; file None is the console.
file_writer(file, filter, formatter) ==
  [file |-> file, filter |-> filter, formatter |-> formatter]

add_handlers_replace(registry, new) == new

\* config.add_handlers: appended to the registry
add_handlers(registry, new) == registry \o new

\* the files a list of sinks opens (append mode: created when absent)
OpenFiles(fs, new) ==
  LET names == {new[i].file.s : i \in {j \in DOMAIN new : new[j].file # None}}
  IN  [f \in DOMAIN fs \cup names |-> IF f \in DOMAIN fs THEN fs[f] ELSE <<>>]

\* config.set(pool_size=...) accepts a non-negative integer only
ValidPoolSize(n) == n >= 0

ApplyFormatter(formatter, item) ==
  CASE formatter.name = "customLogFormat" -> customLogFormat(item)

\* whether a sink's filter lets the record through
ApplyFilter(filter, item) ==
  CASE filter = None -> TRUE
    [] filter # None /\ filter.name = "plainOnly" ->
         Get(item, "message") = PyStr(PlainMsg)
    [] filter # None /\ filter.name = "inner_filter" ->
         LET r == inner_filter(filter.model, item)
         IN  r.exc = "none" /\ r.val

\* One record is handed to every registered sink in registration order.
RECURSIVE Deliver(_, _, _, _, _)
Deliver(item, hs, i, con, fs) ==
  IF i > Len(hs) THEN [console |-> con, files |-> fs]
  ELSE LET h == hs[i]
           entry == [h |-> i, time |-> item.time,
                     line |-> ApplyFormatter(h.formatter, item).val]
       IN  IF ~ApplyFilter(h.filter, item) THEN Deliver(item, hs, i + 1, con, fs)
           ELSE IF h.file = None THEN Deliver(item, hs, i + 1, Append(con, entry), fs)
           ELSE Deliver(item, hs, i + 1, con,
                        [fs EXCEPT ![h.file.s] = Append(@, entry)])

(***************************************************************************)
(* setup_logging.                                                          *)
(***************************************************************************)
\* "if not custom_log_filter": None is falsy, a function is truthy
EffectiveFilter_model(custom_log_filter, custom_log_model) ==
  performanceLogFilter(custom_log_model)

EffectiveFilter(custom_log_filter, custom_log_model) ==
  IF custom_log_filter = None
  THEN performanceLogFilter(custom_log_model)
  ELSE custom_log_filter

ConsoleSink(custom_log_format) ==
  file_writer(None, None, custom_log_format)

FileSink_unfiltered(logfile, custom_log_filter, custom_log_format) ==
  file_writer(logfile, None, custom_log_format)

FileSink(logfile, custom_log_filter, custom_log_format) ==
  file_writer(logfile, custom_log_filter, custom_log_format)

NewSinks_filteredConsole(logfile, custom_log_format, custom_log_filter) ==
  <<file_writer(None, custom_log_filter, custom_log_format)>> \o
  (IF logfile # None
   THEN <<file_writer(logfile, custom_log_filter, custom_log_format)>>
   ELSE <<>>)

NewSinks_always(logfile, custom_log_format, custom_log_filter) ==
  <<file_writer(None, None, custom_log_format),
    file_writer(IF logfile = None THEN PyStr("None") ELSE logfile,
                custom_log_filter, custom_log_format)>>

\* the sinks one call registers: the console sink, then the file sink
\* "if logfile"
NewSinks(logfile, custom_log_format, custom_log_filter) ==
  <<ConsoleSink(custom_log_format)>> \o
  (IF logfile # None
   THEN <<FileSink(logfile, custom_log_filter, custom_log_format)>>
   ELSE <<>>)

SinksAfter_validated(registry, new, pool_size) ==
  IF ValidPoolSize(pool_size) THEN add_handlers(registry, new) ELSE registry

\* the registry when config.set is reached: the sinks are registered by
\* then, whatever pool_size is
SinksAfter(registry, new, pool_size) == add_handlers(registry, new)

\* Lines 102-119, then config.set: an invalid pool_size raises, an unchanged
\* one returns, a changed one reloads the engine, which waits for the
\* records in flight (SetupReloaded).
setup_logging(logfile, pool_size, custom_log_format, custom_log_model, custom_log_filter) ==
  LET flt == EffectiveFilter(custom_log_filter, custom_log_model)
      new == NewSinks(logfile, custom_log_format, flt)
  IN  /\ pc = "ready"
      /\ nSetups < MaxSetups
      /\ nSetups' = nSetups + 1
      /\ root' = basicConfig(root, INFO)
      /\ handlers' = SinksAfter(handlers, new, pool_size)
      /\ files' = OpenFiles(files, new)
      /\ IF ~ValidPoolSize(pool_size)
         THEN /\ lastResult' = "ValueError"
              /\ UNCHANGED <<pc, pending, poolSize>>
         ELSE IF pool_size = poolSize
         THEN /\ lastResult' = "ok"
              /\ UNCHANGED <<pc, pending, poolSize>>
         ELSE /\ pc' = "in_set"
              /\ pending' = pool_size
              /\ lastResult' = "running"
              /\ UNCHANGED poolSize
      /\ UNCHANGED <<queue, busy, console, logged, everMulti>>
      /\ UNCHANGED pureVars

\* the engine reload of config.set ends once the pool has drained
SetupReloaded ==
  /\ pc = "in_set"
  /\ queue = <<>>
  /\ \A w \in Workers : busy[w] = Idle
  /\ poolSize' = pending
  /\ pc' = "ready"
  /\ lastResult' = "ok"
  /\ UNCHANGED <<root, handlers, pending, queue, busy, console, files, logged,
                 nSetups, everMulti>>
  /\ UNCHANGED auxVars

(***************************************************************************)
(* Log calls and the worker pool.                                          *)
(***************************************************************************)
\* logging.log(level, message) by the producing thread
Log(level, message) ==
  LET item == [message |-> PyStr(message), level |-> PyInt(level),
               process |-> MainProcess, time |-> Len(logged) + 1]
  IN  /\ pc = "ready"
      /\ Len(logged) < MaxLogs
      /\ IF level < root.level
         THEN /\ logged' = Append(logged, [level |-> item.level, time |-> item.time,
                                            threshold |-> root.level])
              /\ UNCHANGED <<queue, console, files, everMulti>>
         ELSE IF poolSize = 0
         THEN LET d == Deliver(item, handlers, 1, console, files)
              IN  /\ logged' = Append(logged, item)
                  /\ console' = d.console
                  /\ files' = d.files
                  /\ UNCHANGED <<queue, everMulti>>
         ELSE /\ logged' = Append(logged, item)
              /\ queue' = Append(queue, item)
              /\ everMulti' = (everMulti \/ poolSize >= 2)
              /\ UNCHANGED <<console, files>>
      /\ UNCHANGED <<root, handlers, poolSize, pc, pending, busy, nSetups, lastResult>>
      /\ UNCHANGED auxVars

NextItem_last(q) == Len(q)

\* the worker threads take from the head of the queue
NextItem(q) == 1

WorkerTake(w) ==
  /\ w <= poolSize
  /\ busy[w] = Idle
  /\ queue # <<>>
  /\ busy' = [busy EXCEPT ![w] = queue[NextItem(queue)]]
  /\ queue' = [i \in 1..(Len(queue) - 1) |->
                 IF i < NextItem(queue) THEN queue[i] ELSE queue[i + 1]]
  /\ UNCHANGED <<root, handlers, poolSize, pc, pending, console, files, logged,
                 nSetups, lastResult, everMulti>>
  /\ UNCHANGED auxVars

WorkerDeliver(w) ==
  /\ busy[w] # Idle
  /\ LET d == Deliver(busy[w], handlers, 1, console, files)
     IN  /\ console' = d.console
         /\ files' = d.files
  /\ busy' = [busy EXCEPT ![w] = Idle]
  /\ UNCHANGED <<root, handlers, poolSize, pc, pending, queue, logged,
                 nSetups, lastResult, everMulti>>
  /\ UNCHANGED auxVars

PipeInit ==
  /\ root = [level |-> 30, nhandlers |-> 0]
  /\ handlers = <<>>
  /\ poolSize = 2
  /\ pc = "ready"
  /\ pending = 0
  /\ queue = <<>>
  /\ busy = [w \in Workers |-> Idle]
  /\ console = <<>>
  /\ files = [f \in {} |-> <<>>]
  /\ logged = <<>>
  /\ nSetups = 0
  /\ lastResult = "none"
  /\ everMulti = FALSE
  /\ calls = <<>>

Init ==
  /\ PipeInit
  /\ rec = [message |-> PyStr(PlainMsg), level |-> PyInt(INFO), process |-> MainProcess]
  /\ fmtOut = Unset
  /\ filtOut = Unset

Setup(logfile, pool_size, custom_log_format, custom_log_model, custom_log_filter) ==
  /\ setup_logging(logfile, pool_size, custom_log_format, custom_log_model,
                   custom_log_filter)
  /\ UNCHANGED calls

Next ==
  \/ \E logfile \in LogFiles, pool_size \in PoolSizes, fmt \in LogFormats,
        model \in LogModels, flt \in LogFilters :
        Setup(logfile, pool_size, fmt, model, flt)
  \/ SetupReloaded
  \/ \E level \in LogLevels, message \in LogMessages : Log(level, message)
  \/ \E w \in Workers : WorkerTake(w)
  \/ \E w \in Workers : WorkerDeliver(w)

Spec == Init /\ [][Next]_vars

\* The same pipeline, set up with valid pool sizes only and always with a
\* schema: the worker pool at every size.
NextPool ==
  \/ \E logfile \in LogFiles, pool_size \in WorkerPoolSizes, fmt \in LogFormats,
        flt \in LogFilters :
        Setup(logfile, pool_size, fmt, TestMetric, flt)
  \/ SetupReloaded
  \/ \E level \in LogLevels, message \in LogMessages : Log(level, message)
  \/ \E w \in Workers : WorkerTake(w)
  \/ \E w \in Workers : WorkerDeliver(w)

SpecPool == Init /\ [][NextPool]_vars

\* The same pipeline with synchronous delivery (pool_size 0, the default of
\* setup_logging), the arguments of every call noted.
SetupNoted(logfile, custom_log_format, custom_log_model, custom_log_filter) ==
  /\ setup_logging(logfile, 0, custom_log_format, custom_log_model, custom_log_filter)
  /\ calls' = Append(calls, [logfile |-> logfile, model |-> custom_log_model,
                             filter |-> custom_log_filter])

NextFilter ==
  \/ \E logfile \in LogFiles, fmt \in LogFormats, model \in LogModels,
        flt \in LogFilters :
        SetupNoted(logfile, fmt, model, flt)
  \/ SetupReloaded
  \/ \E level \in LogLevels, message \in LogMessages : Log(level, message)

SpecFilter == Init /\ [][NextFilter]_vars

(***************************************************************************)
(* The formatter and the filter applied directly to one record, any of its *)
(* fields possibly absent, the message possibly not text or not JSON.      *)
(***************************************************************************)
Absent == [t |-> "absent"]
PureProcesses == {Absent, MainProcess}
PureLevels == {Absent, PyInt(10), PyInt(INFO), PyInt(25)}
PureMessages == {Absent, PyInt(5), PyStr(PlainMsg), PyStr(GoodMsg), PyStr(BadTypeMsg),
                 PyStr(MissingMsg), PyStr(ArrayMsg)}

\* the LogItem holding the fields that are not Absent
LogItemOf(process, level, message) ==
  LET full == [process |-> process, level |-> level, message |-> message]
  IN  [k \in {f \in DOMAIN full : full[f] # Absent} |-> full[k]]

PureRecords ==
  {LogItemOf(p, l, m) : p \in PureProcesses, l \in PureLevels, m \in PureMessages}

InitPure ==
  /\ PipeInit
  /\ rec \in PureRecords
  /\ fmtOut = Unset
  /\ filtOut = Unset

Format ==
  /\ fmtOut = Unset
  /\ fmtOut' = customLogFormat(rec)
  /\ UNCHANGED <<rec, filtOut>>
  /\ UNCHANGED pipeVars

Filter(LogModel) ==
  /\ filtOut = Unset
  /\ filtOut' = [model |-> LogModel, res |-> inner_filter(LogModel, rec)]
  /\ UNCHANGED <<rec, fmtOut>>
  /\ UNCHANGED pipeVars

NextPure ==
  \/ Format
  \/ \E LogModel \in LogModels : Filter(LogModel)

SpecPure == InitPure /\ [][NextPure]_vars

(***************************************************************************)
(* Properties of the filter and the formatter (under SpecPure).            *)
(***************************************************************************)
\* the message is JSON for an object that has every field of the model,
\* each of the declared type
MatchesSchema(LogModel, record) ==
  LET loaded == json_loads(Get(record, "message"))
  IN  /\ loaded.exc = "none"
      /\ loaded.val.t = "object"
      /\ ModelErrors(LogModel, loaded.val.fields) = {}

\* C1: the predicate built from a schema returns true exactly when the
\* record's message is valid JSON that matches the schema, and false for
\* every other message (not JSON, a field missing, a field mistyped).
C1_FilterAcceptsExactlyMatching ==
  (filtOut # Unset /\ filtOut.model = TestMetric) =>
     /\ filtOut.res.exc = "none"
     /\ filtOut.res.val = MatchesSchema(TestMetric, rec)

\* C2: the schema filter never propagates an exception: whatever the
\* record (message absent, not text, not JSON, JSON that is no object) and
\* whether or not a schema was given, it returns a boolean, and it returns
\* false whenever parsing or validating raised.
C2_FilterNeverRaises ==
  filtOut # Unset =>
     LET loaded == json_loads(Get(rec, "message"))
         failed == \/ loaded.exc # "none"
                   \/ validate_model(filtOut.model, loaded.val).exc # "none"
     IN  /\ filtOut.res.exc = "none"
         /\ filtOut.res.val \in BOOLEAN
         /\ failed => filtOut.res.val = FALSE

\* a record with no message met the filter built without a schema, and one
\* whose message is a JSON array met the filter built from TestMetric
C2_Witness ==
  /\ filtOut # Unset
  /\ filtOut.res = Return(FALSE)
  /\ \/ "message" \notin DOMAIN rec /\ filtOut.model = None
     \/ Get(rec, "message") = PyStr(ArrayMsg) /\ filtOut.model = TestMetric

\* C9: customLogFormat returns, for every record, a line of the shape
\* "<process> - <levelName> - <message>" and a newline, without raising;
\* a field that is present is rendered by its text, an absent one by the
\* placeholder None (Level None for the level).
C9_FormatIsTotal ==
  fmtOut # Unset =>
     /\ fmtOut.exc = "none"
     /\ Len(fmtOut.val) = 6
     /\ fmtOut.val[2] = " - " /\ fmtOut.val[4] = " - " /\ fmtOut.val[6] = "\n"
     /\ fmtOut.val[1] = (IF "process" \in DOMAIN rec THEN str(rec["process"]) ELSE "None")
     /\ fmtOut.val[5] = (IF "message" \in DOMAIN rec THEN str(rec["message"]) ELSE "None")
     /\ "level" \notin DOMAIN rec => fmtOut.val[3] = "Level None"
     /\ Get(rec, "level") = PyInt(INFO) => fmtOut.val[3] = "INFO"
     /\ Get(rec, "level") = PyInt(25) => fmtOut.val[3] = "Level 25"

\* a record with neither process, level nor message was formatted
C9_Witness ==
  /\ fmtOut # Unset
  /\ DOMAIN rec = {}
  /\ fmtOut = Return(<<"None", " - ", "Level None", " - ", "None", "\n">>)

(***************************************************************************)
(* Properties of the pipeline.                                             *)
(***************************************************************************)
\* no record is on its way through the worker pool
Quiescent == queue = <<>> /\ \A w \in Workers : busy[w] = Idle

\* what sink i has written, in the order written
SinkOutput(i) ==
  LET stream == IF handlers[i].file = None THEN console
                ELSE files[handlers[i].file.s]
  IN  SelectSeq(stream, LAMBDA e : e.h = i)

\* the log calls that passed the threshold, in call order
Passed == SelectSeq(logged, LAMBDA r : "message" \in DOMAIN r)

TimesOf(seq) == [k \in DOMAIN seq |-> seq[k].time]
TimeSet(seq) == {seq[k].time : k \in DOMAIN seq}
Increasing(seq) == \A j, k \in DOMAIN seq : j < k => seq[j] < seq[k]

\* what every stream holds
Written == {console[k] : k \in DOMAIN console} \cup
           UNION {{files[f][k] : k \in DOMAIN files[f]} : f \in DOMAIN files}

\* the decision of an effective filter of setup_logging on a record
Accepts(filter, r) ==
  IF filter = PlainOnly THEN r["message"] = PyStr(PlainMsg)
  ELSE inner_filter(filter.model, r) = Return(TRUE)

\* the first call was given a logfile: its file sink is the second sink
FirstFileSink == Len(handlers) >= 2 /\ handlers[2].file # None

SinkOfCall(k) == k + Cardinality({j \in 1..(k - 1) : calls[j].logfile # None})

\* C5: the file sink of a call has the custom filter when one was given,
\* whatever the model, and else the filter built from the model; with
\* neither, the call raises nothing and its file sink never writes.
C5_EffectiveFilter ==
  \A k \in DOMAIN calls :
     calls[k].logfile # None =>
        LET i == SinkOfCall(k) + 1
        IN  /\ i \in DOMAIN handlers
            /\ handlers[i].file = calls[k].logfile
            /\ calls[k].filter # None => handlers[i].filter = calls[k].filter
            /\ calls[k].filter = None =>
                 handlers[i].filter = performanceLogFilter(calls[k].model)
            /\ \A j \in DOMAIN SinkOutput(i) :
                 Accepts(EffectiveFilter(calls[k].filter, calls[k].model),
                         logged[SinkOutput(i)[j].time])
            /\ (calls[k].filter = None /\ calls[k].model = None) =>
                 /\ lastResult # "ValueError"
                 /\ SinkOutput(i) = <<>>

\* a call with a logfile and neither filter nor model, then a JSON record:
\* it is on the console and not in the file
C5_Witness ==
  /\ Len(calls) = 1
  /\ calls[1] = [logfile |-> PyStr("testing.log"), model |-> None, filter |-> None]
  /\ pc = "ready" /\ lastResult = "ok"
  /\ Len(console) = 1
  /\ logged[console[1].time].message = PyStr(BadTypeMsg)
  /\ files["testing.log"] = <<>>

\* C6: as long as no call was given a logfile, only console sinks are
\* registered, one per call, and no file exists, whatever was logged and
\* whatever schema or custom filter was given.
C6_NoLogfileNoFile ==
  (calls # <<>> /\ \A k \in DOMAIN calls : calls[k].logfile = None) =>
     /\ DOMAIN files = {}
     /\ Len(handlers) = Len(calls)
     /\ \A i \in DOMAIN handlers : handlers[i].file = None

\* a call without logfile but with a schema, then a JSON record
C6_Witness ==
  /\ Len(calls) = 1
  /\ calls[1] = [logfile |-> None, model |-> TestMetric, filter |-> None]
  /\ Len(console) = 1
  /\ logged[console[1].time].message = PyStr(BadTypeMsg)
  /\ DOMAIN files = {}

\* C7: no step removes or replaces a registered sink, and every call adds a
\* console sink, and at most a file sink after it, behind those registered.
C7_SetupIsAdditive ==
  [][/\ Len(handlers') >= Len(handlers)
     /\ SubSeq(handlers', 1, Len(handlers)) = handlers
     /\ nSetups' = nSetups + 1 =>
          /\ Len(handlers') \in {Len(handlers) + 1, Len(handlers) + 2}
          /\ handlers'[Len(handlers) + 1].file = None
          /\ Len(handlers') = Len(handlers) + 2 => handlers'[Len(handlers) + 2].file # None]_vars

\* two calls with a logfile: four sinks
C7_Witness ==
  /\ nSetups = 2
  /\ Len(handlers) = 4
  /\ handlers[2].file # None /\ handlers[4].file # None

C10_NoRollback ==
  [][/\ (nSetups' = nSetups + 1 /\ lastResult' = "ValueError") =>
          /\ Len(handlers') > Len(handlers)
          /\ handlers'[Len(handlers) + 1].file = None
          /\ poolSize' = poolSize
          /\ pc' = "ready"
     /\ (nSetups' = nSetups + 1 /\ pc' = "in_set") =>
          /\ Len(handlers') > Len(handlers)
          /\ poolSize' = poolSize
          /\ pending' # poolSize]_vars

\* a call with a logfile and a refused pool_size: both sinks are registered
C10_Witness ==
  /\ nSetups = 1
  /\ lastResult = "ValueError"
  /\ FirstFileSink
  /\ poolSize = 2

====
